---------------------------- MODULE Spec2Model ----------------------------
(***************************************************************************)
(* A model of the nodefertest analysis pass (src/nodefertest.go).          *)
(*                                                                         *)
(* A source unit is a syntax tree stored in pre-order: node i of the       *)
(* sequence `tree` has source position i, and the subtree of a node is the *)
(* contiguous range i..End(i).  The two nested ast.Inspect traversals of   *)
(* the pass (run's over the file, checkDeferInTestFunc's over a body) are  *)
(* modelled as a stack of frames, one callback invocation per step.        *)
(***************************************************************************)
EXTENDS Naturals, Sequences, FiniteSets

VARIABLES
    tree,       \* the source unit: sequence of nodes in source (pre-)order
    stack,      \* active ast.Inspect traversals, innermost last
    findings,   \* diagnostics reported by the current run, in emission order
    status,     \* "running", "done" or "panic" (nil-pointer dereference)
    runNo,      \* "first" or "second" run of the pass over the same unit
    prev,       \* outcome of the previous run: [findings, status]
    visits,     \* per node, invocations of checkDeferInTestFunc's callback
    walked,     \* body roots whose checkDeferInTestFunc call has returned
    sig         \* a declaration/literal signature under classification

vars == <<tree, stack, findings, status, runNo, prev, visits, walked, sig>>

(***************************************************************************)
(* Bounds of the model.                                                    *)
(***************************************************************************)
MaxNodes == 4       \* nodes in a source unit
MaxDecls == 2       \* function declarations in a source unit
MaxParams == 2      \* fields in a parameter list

(***************************************************************************)
(* Syntax: type expressions of parameter fields, parameter lists, names.   *)
(***************************************************************************)
Ident(name) == [node |-> "Ident", Name |-> name]

SelectorExpr(x, sel) == [node |-> "SelectorExpr", X |-> x, Sel |-> sel]

StarExpr(x) == [node |-> "StarExpr", X |-> x]

ParenExpr(x) == [node |-> "ParenExpr", X |-> x]

PtrTestingT == StarExpr(SelectorExpr(Ident("testing"), "T"))

PtrTestingB == StarExpr(SelectorExpr(Ident("testing"), "B"))

\* The parameter type shapes the model draws from.
ParamTypes ==
    { PtrTestingT,                                        \* *testing.T
      PtrTestingB,                                        \* *testing.B
      StarExpr(SelectorExpr(Ident("testing"), "M")),      \* *testing.M
      StarExpr(SelectorExpr(Ident("other"), "T")),        \* *other.T
      SelectorExpr(Ident("testing"), "T"),                \* testing.T
      StarExpr(Ident("T")),                               \* *T
      Ident("string"),                                    \* string
      StarExpr(SelectorExpr(ParenExpr(Ident("testing")), "T")) } \* *(testing).T

\* A parameter list: absent (nil) or a list of fields.
FieldList(list) == [nil |-> FALSE, List |-> list]

NilFieldList == [nil |-> TRUE, List |-> <<>>]

RECURSIVE ListsUpTo(_, _)
ListsUpTo(S, n) ==
    IF n = 0 THEN { <<>> }
    ELSE LET shorter == ListsUpTo(S, n - 1)
         IN  shorter \cup { Append(l, x) : l \in { s \in shorter : Len(s) = n - 1 }, x \in S }

ParamLists == { NilFieldList } \cup { FieldList(l) : l \in ListsUpTo(ParamTypes, MaxParams) }

\* Identifiers are byte strings: sequences of one-character strings.
NameTest == <<"T", "e", "s", "t">>

NameBenchmark == <<"B", "e", "n", "c", "h", "m", "a", "r", "k">>

NameTestA == NameTest \o <<"A">>

NameNotATestFunction ==
    <<"N", "o", "t", "A", "T", "e", "s", "t", "F", "u", "n", "c", "t", "i", "o", "n">>

Names ==
    { NameTest, NameTestA, NameBenchmark, NameBenchmark \o <<"X">>,
      NameNotATestFunction, <<"T", "e", "s">>, <<"T", "e", "s", "l", "a">>,
      <<"t", "e", "s", "t", "A">>, <<"B", "e", "n", "c", "h", "m", "a", "r", "X", "1">>,
      <<"E", "x", "a", "m", "p", "l", "e", "A">> }

(***************************************************************************)
(* Syntax: the nodes of a source unit.                                     *)
(***************************************************************************)
FuncDecl(name, params, body) ==
    [kind |-> "FuncDecl", parent |-> 0, Name |-> name, Params |-> params, Body |-> body]

FuncLit(p, params) == [kind |-> "FuncLit", parent |-> p, Params |-> params]

DeferStmt(p) == [kind |-> "DeferStmt", parent |-> p]

\* Any other statement or expression node (block, if, for, switch, call, ...).
OtherNode(p) == [kind |-> "Other", parent |-> p]

\* Declarations of the walker model: name and signature combinations.
DeclHeads ==
    { <<NameTestA, FieldList(<<PtrTestingT>>)>>,
      <<NameTest, FieldList(<<PtrTestingT>>)>>,
      <<NameNotATestFunction, FieldList(<<PtrTestingT>>)>>,
      <<NameTestA, FieldList(<<>>)>> }

\* Signatures of the function literals of the walker model.
LitParams == { FieldList(<<PtrTestingT>>), FieldList(<<>>) }

RECURSIVE AncestorsOrSelf(_, _)
AncestorsOrSelf(t, i) ==
    IF i = 0 THEN {} ELSE {i} \cup AncestorsOrSelf(t, t[i].parent)

\* Where the next node in source order can hang: the file or the rightmost path.
RightPath(t) == {0} \cup AncestorsOrSelf(t, Len(t))

\* The nodes that may follow tree t in source order.
NumDecls(t) == Cardinality({ i \in 1..Len(t) : t[i].kind = "FuncDecl" })

NextNodes(t) ==
    LET under(p) ==
            IF p = 0
            THEN IF NumDecls(t) >= MaxDecls THEN {}
                 ELSE { FuncDecl(h[1], h[2], b) : h \in DeclHeads, b \in BOOLEAN }
            ELSE LET k == t[p].kind
                 IN  IF k = "FuncDecl" /\ ~t[p].Body THEN {}
                     ELSE IF k = "DeferStmt"
                     THEN { FuncLit(p, ps) : ps \in LitParams } \cup { OtherNode(p) }
                     ELSE { FuncLit(p, ps) : ps \in LitParams }
                          \cup { DeferStmt(p), OtherNode(p) }
    IN  UNION { under(p) : p \in RightPath(t) }

\* The unit is any tree of at most n more nodes grown from t in source order.
RECURSIVE IsUnit(_, _)
IsUnit(t, n) ==
    \/ tree = t
    \/ n > 0 /\ \E x \in NextNodes(t) : IsUnit(Append(t, x), n - 1)

\* Last position of the subtree rooted at node i of the current unit.
End(i) ==
    LET inside(j) == \A k \in (i + 1)..j : tree[k].parent >= i
    IN  CHOOSE j \in i..Len(tree) :
            inside(j) /\ (j = Len(tree) \/ ~inside(j + 1))

(***************************************************************************)
(* The predicates of the pass.                                             *)
(***************************************************************************)
RECURSIVE ScanFuncLitFields(_, _)
ScanFuncLitFields(list, i) ==
    IF i > Len(list) THEN FALSE
    ELSE LET field == list[i]
         IN  IF field.node # "StarExpr" THEN ScanFuncLitFields(list, i + 1)
             ELSE IF field.X.node # "SelectorExpr" THEN ScanFuncLitFields(list, i + 1)
             ELSE IF field.X.X.node # "Ident" THEN ScanFuncLitFields(list, i + 1)
             ELSE IF field.X.X.Name = "testing" /\ (field.X.Sel = "T" \/ field.X.Sel = "B")
             THEN TRUE
             ELSE ScanFuncLitFields(list, i + 1)

hasFuncLitTestingTParam(params) ==
    IF params.nil THEN FALSE ELSE ScanFuncLitFields(params.List, 1)

isTestFunctionNoPrefix(name) == Len(name) > 4 \/ Len(name) > 9

isTestFunctionInclusive(name) ==
    \/ Len(name) >= 4 /\ SubSeq(name, 1, 4) = NameTest
    \/ Len(name) >= 9 /\ SubSeq(name, 1, 9) = NameBenchmark

isTestFunction(name) ==
    \/ Len(name) > 4 /\ SubSeq(name, 1, 4) = NameTest
    \/ Len(name) > 9 /\ SubSeq(name, 1, 9) = NameBenchmark

RECURSIVE ScanFuncDeclFields(_, _)
ScanFuncDeclFields(list, i) ==
    IF i > Len(list) THEN FALSE
    ELSE LET field == list[i]
         IN  IF field.node # "StarExpr" THEN ScanFuncDeclFields(list, i + 1)
             ELSE IF field.X.node # "SelectorExpr" THEN ScanFuncDeclFields(list, i + 1)
             ELSE IF field.X.X.node # "Ident" THEN ScanFuncDeclFields(list, i + 1)
             ELSE IF field.X.X.Name = "testing" /\ (field.X.Sel = "T" \/ field.X.Sel = "B")
             THEN TRUE
             ELSE ScanFuncDeclFields(list, i + 1)

hasTestingTParamOnlyT(params) ==
    IF params.nil \/ Len(params.List) = 0 THEN FALSE
    ELSE \E i \in 1..Len(params.List) : params.List[i] = PtrTestingT

hasTestingTParam(params) ==
    IF params.nil \/ Len(params.List) = 0 THEN FALSE
    ELSE ScanFuncDeclFields(params.List, 1)

\* run's test at line 27, negated: the declaration is checked.
IsEntryPointEither(name, params) == isTestFunction(name) \/ hasTestingTParam(params)

IsEntryPoint(name, params) == isTestFunction(name) /\ hasTestingTParam(params)

\* checkDeferInTestFunc's decision to recurse into a function literal.
RecurseAlways(params) == TRUE

RecurseInto(params) == hasFuncLitTestingTParam(params)

\* What the callback returns to ast.Inspect after a defer statement ...
DeferReturnFalse == FALSE

DeferReturn == TRUE

\* ... and after a function literal.
FuncLitReturnTrue == TRUE

FuncLitReturn == FALSE

\* ast.Inspect: the node visited after n, given the callback's answer for n.
Advance(n, descend) == IF descend THEN n + 1 ELSE End(n) + 1

Message ==
    "use t.Cleanup() instead of defer in test functions to ensure cleanup runs even after t.Fatal/t.FailNow"

\* pass.Reportf
ReportfUnlessSeen(fs, pos) ==
    IF \E i \in 1..Len(prev.findings) : prev.findings[i].pos = pos
    THEN fs
    ELSE Append(fs, [pos |-> pos, msg |-> Message])

Reportf(fs, pos) == Append(fs, [pos |-> pos, msg |-> Message])

(***************************************************************************)
(* The pass as a state machine.                                            *)
(***************************************************************************)
Frame(fn, root, cur, hi) == [fn |-> fn, root |-> root, cur |-> cur, hi |-> hi]

Top == stack[Len(stack)]

SetCur(c) == [stack EXCEPT ![Len(stack)].cur = c]

NoSig == [name |-> <<>>, params |-> NilFieldList, declDone |-> FALSE, litDone |-> FALSE,
          isTest |-> FALSE, hasT |-> FALSE, entry |-> FALSE, lit |-> FALSE]

NoOutcome == [findings |-> <<>>, status |-> "none"]

Init ==
    /\ IsUnit(<<>>, MaxNodes)
    /\ stack = << Frame("run", 0, 1, Len(tree)) >>
    /\ findings = <<>>
    /\ status = "running"
    /\ runNo = "first"
    /\ prev = NoOutcome
    /\ visits = [i \in 1..Len(tree) |-> 0]
    /\ walked = {}
    /\ sig = NoSig

InRun == status = "running" /\ stack # <<>> /\ Top.fn = "run" /\ Top.cur <= Top.hi

InWalk == status = "running" /\ stack # <<>> /\ Top.fn = "walk" /\ Top.cur <= Top.hi

\* run's callback, lines 21-24: the node is no function declaration.
RunNotFuncDecl ==
    /\ InRun
    /\ tree[Top.cur].kind # "FuncDecl"
    /\ stack' = SetCur(Advance(Top.cur, TRUE))
    /\ UNCHANGED <<tree, findings, status, runNo, prev, visits, walked, sig>>

\* run's callback, lines 27-29: a function declaration that is no test.
RunNotTestFunction ==
    /\ InRun
    /\ tree[Top.cur].kind = "FuncDecl"
    /\ ~IsEntryPoint(tree[Top.cur].Name, tree[Top.cur].Params)
    /\ stack' = SetCur(Advance(Top.cur, TRUE))
    /\ UNCHANGED <<tree, findings, status, runNo, prev, visits, walked, sig>>

\* run's callback, lines 32-33: the body of a test function is checked.
RunCheckTestFunc ==
    /\ InRun
    /\ tree[Top.cur].kind = "FuncDecl"
    /\ IsEntryPoint(tree[Top.cur].Name, tree[Top.cur].Params)
    /\ tree[Top.cur].Body
    /\ stack' = Append(SetCur(Advance(Top.cur, FALSE)),
                       Frame("walk", Top.cur, Top.cur + 1, End(Top.cur)))
    /\ UNCHANGED <<tree, findings, status, runNo, prev, visits, walked, sig>>

\* run's callback, line 32, on a declaration without body: ast.Inspect is
\* handed a nil *ast.BlockStmt and dereferences it after the callback.
RunCheckNilBody ==
    /\ InRun
    /\ tree[Top.cur].kind = "FuncDecl"
    /\ IsEntryPoint(tree[Top.cur].Name, tree[Top.cur].Params)
    /\ ~tree[Top.cur].Body
    /\ status' = "panic"
    /\ UNCHANGED <<tree, stack, findings, runNo, prev, visits, walked, sig>>

\* run, lines 35-37: the file's traversal is over.
RunReturn ==
    /\ status = "running"
    /\ stack # <<>> /\ Top.fn = "run" /\ Top.cur > Top.hi
    /\ stack' = <<>>
    /\ status' = "done"
    /\ UNCHANGED <<tree, findings, runNo, prev, visits, walked, sig>>

\* checkDeferInTestFunc's callback, lines 44-47.
WalkDeferStmt ==
    /\ InWalk
    /\ tree[Top.cur].kind = "DeferStmt"
    /\ findings' = Reportf(findings, Top.cur)
    /\ stack' = SetCur(Advance(Top.cur, DeferReturn))
    /\ visits' = [visits EXCEPT ![Top.cur] = @ + 1]
    /\ UNCHANGED <<tree, status, runNo, prev, walked, sig>>

\* checkDeferInTestFunc's callback, lines 48-56, literal with a test parameter.
WalkFuncLitRecurse ==
    /\ InWalk
    /\ tree[Top.cur].kind = "FuncLit"
    /\ RecurseInto(tree[Top.cur].Params)
    /\ stack' = Append(SetCur(Advance(Top.cur, FuncLitReturn)),
                       Frame("walk", Top.cur, Top.cur + 1, End(Top.cur)))
    /\ visits' = [visits EXCEPT ![Top.cur] = @ + 1]
    /\ UNCHANGED <<tree, findings, status, runNo, prev, walked, sig>>

\* checkDeferInTestFunc's callback, lines 48-56, literal without one.
WalkFuncLitSkip ==
    /\ InWalk
    /\ tree[Top.cur].kind = "FuncLit"
    /\ ~RecurseInto(tree[Top.cur].Params)
    /\ stack' = SetCur(Advance(Top.cur, FuncLitReturn))
    /\ visits' = [visits EXCEPT ![Top.cur] = @ + 1]
    /\ UNCHANGED <<tree, findings, status, runNo, prev, walked, sig>>

\* checkDeferInTestFunc's callback, line 58: any other node.
WalkOther ==
    /\ InWalk
    /\ tree[Top.cur].kind \notin {"DeferStmt", "FuncLit"}
    /\ stack' = SetCur(Advance(Top.cur, TRUE))
    /\ visits' = [visits EXCEPT ![Top.cur] = @ + 1]
    /\ UNCHANGED <<tree, findings, status, runNo, prev, walked, sig>>

\* checkDeferInTestFunc, line 60: the body's traversal is over.
WalkReturn ==
    /\ status = "running"
    /\ stack # <<>> /\ Top.fn = "walk" /\ Top.cur > Top.hi
    /\ walked' = walked \cup {Top.root}
    /\ stack' = SubSeq(stack, 1, Len(stack) - 1)
    /\ UNCHANGED <<tree, findings, status, runNo, prev, visits, sig>>

\* The driver runs the pass again over the same, unmodified unit.
Rerun ==
    /\ status \in {"done", "panic"}
    /\ runNo = "first"
    /\ runNo' = "second"
    /\ prev' = [findings |-> findings, status |-> status]
    /\ stack' = << Frame("run", 0, 1, Len(tree)) >>
    /\ findings' = <<>>
    /\ status' = "running"
    /\ visits' = [i \in 1..Len(tree) |-> 0]
    /\ walked' = {}
    /\ UNCHANGED <<tree, sig>>

Next ==
    \/ RunNotFuncDecl
    \/ RunNotTestFunction
    \/ RunCheckTestFunc
    \/ RunCheckNilBody
    \/ RunReturn
    \/ WalkDeferStmt
    \/ WalkFuncLitRecurse
    \/ WalkFuncLitSkip
    \/ WalkOther
    \/ WalkReturn
    \/ Rerun

Spec == Init /\ [][Next]_vars


(***************************************************************************)
(* The classifiers applied to one signature: inputs drawn from Names and   *)
(* ParamLists, then run's test (line 27) and the literal test (line 50).   *)
(***************************************************************************)
InitSig ==
    /\ \E n \in Names, ps \in ParamLists :
           sig = [NoSig EXCEPT !.name = n, !.params = ps]
    /\ tree = <<>>
    /\ stack = <<>>
    /\ findings = <<>>
    /\ status = "idle"
    /\ runNo = "first"
    /\ prev = NoOutcome
    /\ visits = <<>>
    /\ walked = {}

\* run's callback, line 27, on a declaration with this name and signature.
ClassifyFuncDecl ==
    /\ status = "idle"
    /\ ~sig.declDone
    /\ sig' = [sig EXCEPT !.declDone = TRUE,
                          !.isTest = isTestFunction(sig.name),
                          !.hasT = hasTestingTParam(sig.params),
                          !.entry = IsEntryPoint(sig.name, sig.params)]
    /\ UNCHANGED <<tree, stack, findings, status, runNo, prev, visits, walked>>

\* checkDeferInTestFunc's callback, line 50, on a literal with this signature.
ClassifyFuncLit ==
    /\ status = "idle"
    /\ ~sig.litDone
    /\ sig' = [sig EXCEPT !.litDone = TRUE,
                          !.lit = RecurseInto(sig.params)]
    /\ UNCHANGED <<tree, stack, findings, status, runNo, prev, visits, walked>>

NextSig == ClassifyFuncDecl \/ ClassifyFuncLit

SpecSig == InitSig /\ [][NextSig]_vars

(***************************************************************************)
(* Vocabulary of the properties, stated on the syntax tree alone.          *)
(***************************************************************************)
\* TestContextParameterShape: a pointer to one of the two driver types.
TestContextParam(ty) == ty \in {PtrTestingT, PtrTestingB}

Qualifies(params) ==
    /\ ~params.nil
    /\ \E i \in 1..Len(params.List) : TestContextParam(params.List[i])

StartsWith(name, prefix) ==
    /\ Len(name) >= Len(prefix)
    /\ \A i \in 1..Len(prefix) : name[i] = prefix[i]

HasRecognizedPrefix(name) == StartsWith(name, NameTest) \/ StartsWith(name, NameBenchmark)

\* A recognized prefix followed by at least one more character.
PrefixAndSuffix(name) ==
    \E p \in {NameTest, NameBenchmark} : StartsWith(name, p) /\ Len(name) >= Len(p) + 1

Nodes == 1..Len(tree)

StrictAncestors(i) == AncestorsOrSelf(tree, tree[i].parent)

DeclOf(i) == CHOOSE d \in AncestorsOrSelf(tree, i) : tree[d].kind = "FuncDecl"

EntryDecl(d) == PrefixAndSuffix(tree[d].Name) /\ Qualifies(tree[d].Params)

IsLit(i) == tree[i].kind = "FuncLit"

IsDefer(i) == tree[i].kind = "DeferStmt"

QualifyingLit(i) == IsLit(i) /\ Qualifies(tree[i].Params)

\* Node d lies in the body rooted at r with only qualifying literals between.
ReachableFrom(r, d) ==
    /\ r \in StrictAncestors(d)
    /\ \A a \in StrictAncestors(d) : a > r /\ IsLit(a) => Qualifies(tree[a].Params)

ExpectedDefers(r) == { d \in Nodes : IsDefer(d) /\ ReachableFrom(r, d) }

\* Node i belongs to a live test context of the unit.
InLive(i) ==
    /\ tree[i].kind # "FuncDecl"
    /\ EntryDecl(DeclOf(i))
    /\ ReachableFrom(DeclOf(i), i)

Positions == { findings[k].pos : k \in 1..Len(findings) }

Count(fs, f) == Cardinality({ k \in 1..Len(fs) : fs[k] = f })

TimesReported(i) == Cardinality({ k \in 1..Len(findings) : findings[k].pos = i })

FindingsUnder(r) ==
    Cardinality({ k \in 1..Len(findings) : r \in StrictAncestors(findings[k].pos) })

Stopped == status \in {"done", "panic"}

\* Deepest nesting of function literals in the unit.
LitDepth(i) == Cardinality({ a \in AncestorsOrSelf(tree, i) : IsLit(a) })

MaxLitDepth == IF Nodes = {} THEN 0
               ELSE CHOOSE m \in 0..Len(tree) :
                        /\ \A i \in Nodes : LitDepth(i) <= m
                        /\ \E i \in Nodes : LitDepth(i) = m

(***************************************************************************)
(* Properties.                                                             *)
(***************************************************************************)

\* C1: once the walk of a body (a checked declaration or a literal it
\* recursed into) has returned, the findings under that body are exactly the
\* defer statements reachable from it through transparent nodes and
\* qualifying literals, each reported exactly once.
C1_FindingsEqualReachableDefers ==
    \A r \in walked :
        /\ FindingsUnder(r) = Cardinality(ExpectedDefers(r))
        /\ \A d \in ExpectedDefers(r) : TimesReported(d) = 1

C1_Witness ==
    /\ status = "done"
    /\ \E r \in walked, l \in walked :
           /\ tree[r].kind = "FuncDecl" /\ IsLit(l) /\ r \in StrictAncestors(l)
           /\ ExpectedDefers(l) # {}
           /\ Cardinality(ExpectedDefers(r)) >= 2

C3_NothingFromRejectedLiteral ==
    \A p \in Positions :
        \A a \in StrictAncestors(p) : IsLit(a) => Qualifies(tree[a].Params)

C3_Witness ==
    /\ status = "done"
    /\ \E d \in Nodes :
           /\ IsDefer(d)
           /\ QualifyingLit(tree[d].parent)
           /\ tree[tree[d].parent].parent # 0
           /\ IsLit(tree[tree[d].parent].parent)
           /\ ~QualifyingLit(tree[tree[d].parent].parent)
           /\ EntryDecl(DeclOf(d))
           /\ DeclOf(d) \in walked

C5_NothingWithoutPrefix ==
    \A p \in Positions : HasRecognizedPrefix(tree[DeclOf(p)].Name)

C5_Witness ==
    /\ status = "done"
    /\ \E d \in Nodes :
           /\ tree[d].kind = "FuncDecl"
           /\ ~HasRecognizedPrefix(tree[d].Name)
           /\ \E i, j \in Nodes :
                  /\ IsDefer(i) /\ tree[i].parent = d
                  /\ IsDefer(j) /\ QualifyingLit(tree[j].parent) /\ DeclOf(j) = d

\* C6: for the same parameter list the literal rule and the declaration's
\* signature rule agree, and both hold iff some parameter is *testing.T or
\* *testing.B.
C6_SameSignatureRule ==
    (sig.declDone /\ sig.litDone) =>
        /\ sig.lit = sig.hasT
        /\ sig.lit = Qualifies(sig.params)

C6_Witness ==
    /\ sig.declDone /\ sig.litDone
    /\ sig.lit /\ sig.hasT
    /\ Len(sig.params.List) = 2
    /\ ~TestContextParam(sig.params.List[1])
    /\ sig.params.List[2] = PtrTestingB

\* C7: the pass has no failure outcome.
C7_NoFailure == status # "panic"

C9_RunsToCompletion ==
    /\ Len(stack) <= 2 + MaxLitDepth
    /\ Stopped =>
           /\ status = "done"
           /\ \A i \in Nodes : InLive(i) => visits[i] = 1

\* C10: findings are emitted in source order.
C10_SourceOrder ==
    \A i, j \in 1..Len(findings) : i < j => findings[i].pos < findings[j].pos

C10_Witness ==
    /\ status = "done"
    /\ Len(findings) >= 2
    /\ \E l \in Nodes :
           /\ QualifyingLit(l)
           /\ findings[1].pos < l
           /\ tree[findings[2].pos].parent = l

=============================================================================
